---- MODULE Spec2Model ----
(***************************************************************************)
(* GeoGuide: the chat orchestrator and map view of src/src/App.tsx, the    *)
(* generative-API wrapper chatWithMaps, and the account-link proxy of      *)
(* src/server.ts with its cookie-backed session.                           *)
(*                                                                         *)
(* Strings are sequences of tokens (a token is a character or an opaque    *)
(* piece of text), so trimming, joining and matching are computed.         *)
(*                                                                         *)
(* Three specifications share the variables.  Spec is the application in  *)
(* one browser: the chat orchestrator, the cross-window listener and the   *)
(* profile/repository fetches, answered by the server's handlers, with the *)
(* OAuth callback and the session's expiry.  SpecServer is server.ts alone *)
(* under requests from any browser.  SpecMap is the map view (zoom,        *)
(* centre, geolocation), whose state no action of Spec writes.             *)
(***************************************************************************)
EXTENDS Integers, Sequences, FiniteSets, TLC

VARIABLES
  messages,     \* App.tsx:26  the transcript
  input,        \* App.tsx:32  the textarea's text
  isLoading,    \* App.tsx:33
  location,     \* App.tsx:34  device coordinate or Null
  mapCenter,    \* App.tsx:35
  zoom,         \* App.tsx:36
  githubUser,   \* App.tsx:37  profile or Null
  githubRepos,  \* App.tsx:38
  mounted,      \* whether the mount effects (App.tsx:41-57, 94-107) have run
  geoAsked,     \* whether getCurrentPosition still owes its one callback
  pending,      \* handleSend invocations suspended at `await chatWithMaps`
  apiCalls,     \* number of ai.models.generateContent calls issued
  chains,       \* requests of fetchGithubUser / fetchGithubRepos in flight
  fetches,      \* number of fetchGithubUser() calls made by handleMessage
  sessions,     \* each browser's session cookie: the githubToken it holds
  last          \* the handler that ran last and what it observed (history)

vars == <<messages, input, isLoading, location, mapCenter, zoom, githubUser,
          githubRepos, mounted, geoAsked, pending, apiCalls, chains, fetches,
          sessions, last>>

chatVars == <<messages, input, isLoading, pending, apiCalls>>
mapVars == <<location, mapCenter, zoom, geoAsked>>
linkVars == <<githubUser, githubRepos, chains, fetches>>

----------------------------------------------------------------------------
(* Bounds of the model *)

\* operations explored after the mount: accepted submissions plus
\* fetchGithubUser invocations by handleMessage
MaxOps == 2

(* Program constants *)
InitialZoom == 13
MaxZoom == 18
MinZoom == 3
ClickZoom == 15
PerPage == 5

----------------------------------------------------------------------------
(* Values *)

\* JavaScript null / undefined where an object is expected (githubUser,
\* location)
Null == [null |-> TRUE]

Min(a, b) == IF a < b THEN a ELSE b
Max(a, b) == IF a > b THEN a ELSE b

Whitespace == {" ", "\n"}

\* String.prototype.trim: strips whitespace from both ends
RECURSIVE TrimStart(_)
TrimStart(s) ==
  IF s = <<>> THEN <<>>
  ELSE IF Head(s) \in Whitespace THEN TrimStart(Tail(s))
  ELSE s

RECURSIVE TrimEnd(_)
TrimEnd(s) ==
  IF s = <<>> THEN <<>>
  ELSE IF s[Len(s)] \in Whitespace THEN TrimEnd(SubSeq(s, 1, Len(s) - 1))
  ELSE s

Trim(s) == TrimEnd(TrimStart(s))

\* what the user can have typed into the textarea
InputTexts == { <<>>, <<" ", "\n">>, <<" ", "a", " ">> }

\* String.prototype.endsWith / includes, on token sequences
EndsWith(s, suffix) ==
  /\ Len(suffix) <= Len(s)
  /\ SubSeq(s, Len(s) - Len(suffix) + 1, Len(s)) = suffix

Includes(s, sub) ==
  \E i \in 1..(Len(s) - Len(sub) + 1) : SubSeq(s, i, i + Len(sub) - 1) = sub

\* Array.prototype.join
RECURSIVE Join(_, _)
Join(parts, sep) ==
  IF parts = <<>> THEN <<>>
  ELSE IF Len(parts) = 1 THEN parts[1]
  ELSE parts[1] \o sep \o Join(Tail(parts), sep)

----------------------------------------------------------------------------
(* The generative API and chatWithMaps *)

ListReposTool == "list_github_repositories"

LinkPromptText ==
  <<"You haven't connected your GitHub account yet. Please click the 'Connect GitHub' button below to see your repositories.">>

ErrorText ==
  <<"I encountered an error while trying to find that information. Please try again.">>

RepoListHeader == <<"Here are your most recent GitHub repositories:", "\n", "\n">>

MapsChunk == [maps |-> [uri |-> "https://maps.example/p1", title |-> "Cafe"]]
UntitledMapsChunk == [maps |-> [uri |-> "https://maps.example/p2", title |-> ""]]
WebChunk == [web |-> [uri |-> "https://web.example", title |-> "Page"]]

\* What one ai.models.generateContent call can come to: a throw (transport
\* or API error) or a response.  functionCalls is <<>> where the SDK gives
\* undefined (both skip the loop of handleSend); text is <<>> where the SDK
\* gives undefined (chatWithMaps turns it into "").
GenOutcomes ==
  { [throws |-> TRUE, text |-> <<>>, functionCalls |-> <<>>, chunks |-> <<>>],
    [throws |-> FALSE, text |-> <<"Try the cafe.">>, functionCalls |-> <<>>,
     chunks |-> <<MapsChunk, WebChunk, UntitledMapsChunk>>],
    [throws |-> FALSE, text |-> <<>>, functionCalls |-> <<"other_tool", ListReposTool>>,
     chunks |-> <<>>],
    [throws |-> FALSE, text |-> <<>>, functionCalls |-> <<"other_tool">>,
     chunks |-> <<>>] }

IsMaps(chunk) == "maps" \in DOMAIN chunk

\* chunks.forEach(chunk => if (chunk.maps) mapResults.push(...))
RECURSIVE ExtractMapResults(_)
ExtractMapResults(chunks) ==
  IF chunks = <<>> THEN <<>>
  ELSE LET c == Head(chunks)
           rest == ExtractMapResults(Tail(chunks))
       IN IF IsMaps(c)
          THEN <<[uri |-> c.maps.uri,
                  title |-> IF c.maps.title = "" THEN "View on Google Maps"
                            ELSE c.maps.title]>> \o rest
          ELSE rest

\* a ChatMessage; mapResults is left out where the code leaves it undefined
ModelMessage(text, mapResults) ==
  IF mapResults = <<>> THEN [role |-> "model", text |-> text]
  ELSE [role |-> "model", text |-> text, mapResults |-> mapResults]

\* chatWithMaps, given what its one generateContent call comes to
chatWithMaps(message, loc, outcome) ==
  IF outcome.throws
  THEN [response |-> [functionCalls |-> <<>>],
        chatMessage |-> ModelMessage(ErrorText, <<>>)]
  ELSE [response |-> outcome,
        chatMessage |-> ModelMessage(outcome.text, ExtractMapResults(outcome.chunks))]

----------------------------------------------------------------------------
(* Chat orchestrator: handleSend *)

WelcomeMessage ==
  [role |-> "model", text |-> <<"Hi! I'm GeoGuide.">>]

\* `- [${r.name}](${r.html_url}): ${r.description || 'No description'}`
RepoLine(r) ==
  <<"- [", r.name, "](", r.html_url, "): ",
    IF r.description = "" THEN "No description" ELSE r.description>>

\* githubRepos.map(...).join('\n') under the header
RepoListText(repos) ==
  RepoListHeader \o Join([i \in 1..Len(repos) |-> RepoLine(repos[i])], <<"\n">>)

\* mutant: the early return compares the raw input, not the trimmed one
SendRefusedUntrimmed(inp, loading) == inp = <<>> \/ loading

\* mutant: the early return does not look at the loading flag
SendRefusedNotBusy(inp, loading) == Trim(inp) = <<>>

\* the early return of handleSend, which is also the button's disabled test
SendRefused(inp, loading) == Trim(inp) = <<>> \/ loading

\* for (const call of response.functionCalls) if (call.name === ...)
HasListCall(calls) == \E i \in 1..Len(calls) : calls[i] = ListReposTool

\* the assistant turn of the tool-call branch, from the githubUser and
\* githubRepos the invocation closed over
ToolCallMessage(user, repos) ==
  IF user = Null THEN ModelMessage(LinkPromptText, <<>>)
  ELSE ModelMessage(RepoListText(repos), <<>>)

\* onChange of the textarea
SetInput ==
  /\ mounted
  /\ \E t \in InputTexts : input' = t
  /\ input' # input
  /\ UNCHANGED <<messages, isLoading, pending, apiCalls, mapVars, linkVars,
                 mounted, sessions, last>>

\* handleSend up to its await (the Send button and Enter both call it).  The
\* invocation keeps the input, location, githubUser and githubRepos of the
\* render it was created in; lenBefore is history.  (React runs the mount
\* effects before it dispatches the first user event.)
HandleSend ==
  /\ mounted
  /\ IF SendRefused(input, isLoading)
     THEN /\ last' = [op |-> "handleSend", accepted |-> FALSE,
                       blank |-> Trim(input) = <<>>, busy |-> isLoading]
          /\ UNCHANGED <<chatVars, mapVars, linkVars, mounted, sessions>>
     ELSE /\ apiCalls + fetches < MaxOps
          /\ messages' = Append(messages, [role |-> "user", text |-> input])
          /\ input' = <<>>
          /\ isLoading' = TRUE
          /\ apiCalls' = apiCalls + 1
          /\ pending' = Append(pending,
                           [message |-> input, location |-> location,
                            githubUser |-> githubUser, githubRepos |-> githubRepos,
                            lenBefore |-> Len(messages)])
          /\ last' = [op |-> "handleSend", accepted |-> TRUE,
                       blank |-> Trim(input) = <<>>, busy |-> isLoading]
          /\ UNCHANGED <<mapVars, linkVars, mounted, sessions>>

RemoveAt(s, i) == SubSeq(s, 1, i - 1) \o SubSeq(s, i + 1, Len(s))

\* mutant: the tool-call branch does not return, and the reply is appended too
HandleSendResumeFallsThrough(p, outcome) ==
  LET r == chatWithMaps(p.message, p.location, outcome)
  IN IF HasListCall(r.response.functionCalls)
     THEN [appended |-> <<ToolCallMessage(p.githubUser, p.githubRepos), r.chatMessage>>,
           isLoading |-> FALSE, toolCall |-> TRUE]
     ELSE [appended |-> <<r.chatMessage>>, isLoading |-> FALSE, toolCall |-> FALSE]

\* mutant: the tool-call branch returns without clearing the loading flag
HandleSendResumeKeepsLoading(p, outcome) ==
  LET r == chatWithMaps(p.message, p.location, outcome)
  IN IF HasListCall(r.response.functionCalls)
     THEN [appended |-> <<ToolCallMessage(p.githubUser, p.githubRepos)>>,
           isLoading |-> TRUE, toolCall |-> TRUE]
     ELSE [appended |-> <<r.chatMessage>>, isLoading |-> FALSE, toolCall |-> FALSE]

\* handleSend from the return of chatWithMaps to its end, for the invocation
\* p and what its generateContent call came to: the messages it appends, the
\* loading flag it leaves, and whether it took the tool-call branch.  (The
\* catch of handleSend is not reached: chatWithMaps catches every throw of
\* its call and returns.)
HandleSendResume(p, outcome) ==
  LET r == chatWithMaps(p.message, p.location, outcome)
  IN IF HasListCall(r.response.functionCalls)
     THEN [appended |-> <<ToolCallMessage(p.githubUser, p.githubRepos)>>,
           isLoading |-> FALSE, toolCall |-> TRUE]
     ELSE [appended |-> <<r.chatMessage>>, isLoading |-> FALSE, toolCall |-> FALSE]

\* mutant: the tool-call branch hands the repository list back to the model
\* in a second generateContent call
ResumeRequestsSecondRound(p, outcome) ==
  IF HasListCall(chatWithMaps(p.message, p.location, outcome).response.functionCalls)
  THEN [generate |-> 1, proxy |-> 0]
  ELSE [generate |-> 0, proxy |-> 0]

\* the requests handleSend issues from the return of chatWithMaps to its
\* end: calls to ai.models.generateContent, and fetches of /api/github/repos.
\* No path has either: the tool-call branch builds its turn from the
\* githubUser and githubRepos at hand and returns.
ResumeRequests(p, outcome) == [generate |-> 0, proxy |-> 0]

----------------------------------------------------------------------------
(* Account-link proxy: the handlers of server.ts *)

\* req.session.githubToken when the key is missing, undefined or empty: all
\* of them fail `if (!token)`
NoToken == ""

Tokens == {"gho_1"}

\* browsers that visit the server, each with its own session cookie; the
\* application whose state the other variables hold runs in AppBrowser
Browsers == {"b1", "b2", "b3"}
AppBrowser == "b1"

\* the session cookie the application's requests carry
cookie == sessions[AppBrowser]

\* req.query.code: "" stands for a missing or empty parameter (`!code`)
Codes == {"", "code_1"}

\* What the POST to the provider's access_token endpoint can come to: a
\* throw (transport error or non-2xx), a body with an access_token, or a 200
\* body without one ({error: "bad_verification_code"}), whose access_token
\* reads as undefined.
ExchangeOutcomes ==
  { [throws |-> TRUE, access_token |-> NoToken],
    [throws |-> FALSE, access_token |-> NoToken] }
  \cup { [throws |-> FALSE, access_token |-> t] : t \in Tokens }

Profile == [login |-> "octocat", name |-> "The Octocat", avatar_url |-> "https://avatars.example/1"]

\* description is "" where the provider gives null (both take the
\* 'No description' branch)
Repo(i) ==
  [id |-> i, name |-> "repo" \o ToString(i),
   html_url |-> "https://github.com/octocat/repo" \o ToString(i),
   description |-> IF i % 2 = 0 THEN "" ELSE "about " \o ToString(i)]

\* the provider's answer to /user/repos?sort=updated&per_page=5 for an
\* account with n repositories
ProviderRepos(n) == [i \in 1..Min(n, PerPage) |-> Repo(i)]

\* how many repositories the account can have when the provider is asked
RepoCounts == {0, 2, PerPage + 1}

\* what the provider can answer to the repositories request: a failure (a
\* throw of axios.get), or a list
RepoOutcomes ==
  {[ok |-> FALSE, repos |-> <<>>]}
  \cup {[ok |-> TRUE, repos |-> ProviderRepos(n)] : n \in RepoCounts}

\* mutant: the callback does not test the code before the exchange
CallbackHandlerNoCodeCheck(tok, code, exchange) ==
  IF exchange.throws
  THEN [status |-> 500, exchanged |-> TRUE, session |-> tok, successPage |-> FALSE]
  ELSE [status |-> 200, exchanged |-> TRUE, session |-> exchange.access_token,
        successPage |-> TRUE]

\* GET /api/auth/github/callback, given the session's token, the code and
\* what the exchange comes to: the status sent, whether the exchange call
\* was made, the session's token afterwards, and whether the page that posts
\* OAUTH_AUTH_SUCCESS was served
CallbackHandler(tok, code, exchange) ==
  IF code = ""
  THEN [status |-> 400, exchanged |-> FALSE, session |-> tok, successPage |-> FALSE]
  ELSE IF exchange.throws
  THEN [status |-> 500, exchanged |-> TRUE, session |-> tok, successPage |-> FALSE]
  ELSE [status |-> 200, exchanged |-> TRUE, session |-> exchange.access_token,
        successPage |-> TRUE]

\* GET /api/github/user, given the session's token and whether the
\* provider's /user answers 2xx
GithubUserHandler(tok, upstreamOk) ==
  IF tok = NoToken
  THEN [status |-> 401, upstream |-> FALSE, body |-> Null]
  ELSE IF upstreamOk
  THEN [status |-> 200, upstream |-> TRUE, body |-> Profile]
  ELSE [status |-> 500, upstream |-> TRUE, body |-> Null]

\* mutant: the repositories endpoint calls the provider whatever the session
GithubReposHandlerUnchecked(tok, outcome) ==
  IF outcome.ok
  THEN [status |-> 200, upstream |-> TRUE, body |-> outcome.repos]
  ELSE [status |-> 500, upstream |-> TRUE, body |-> <<>>]

\* GET /api/github/repos, given the session's token and the provider's answer
GithubReposHandler(tok, outcome) ==
  IF tok = NoToken
  THEN [status |-> 401, upstream |-> FALSE, body |-> <<>>]
  ELSE IF outcome.ok
  THEN [status |-> 200, upstream |-> TRUE, body |-> outcome.repos]
  ELSE [status |-> 500, upstream |-> TRUE, body |-> <<>>]

\* a request of browser b to the callback and its response, which rewrites
\* the session cookie when the handler changed the session
CallbackRequest(b) ==
  \E code \in Codes, exchange \in ExchangeOutcomes :
    LET r == CallbackHandler(sessions[b], code, exchange)
    IN /\ sessions' = [sessions EXCEPT ![b] = r.session]
       /\ last' = [op |-> "callback", browser |-> b, code |-> code,
                    tokBefore |-> sessions[b],
                    granted |-> ~exchange.throws /\ exchange.access_token # NoToken,
                    status |-> r.status, exchanged |-> r.exchanged]
       /\ UNCHANGED <<chatVars, mapVars, linkVars, mounted>>

\* a request of browser b to /api/github/user, from any client
UserRequest(b) ==
  \E upstreamOk \in BOOLEAN :
    LET r == GithubUserHandler(sessions[b], upstreamOk)
    IN /\ last' = [op |-> "getUser", browser |-> b, tok |-> sessions[b],
                    status |-> r.status, upstream |-> r.upstream]
       /\ UNCHANGED <<chatVars, mapVars, linkVars, mounted, sessions>>

\* a request of browser b to /api/github/repos, from any client
ReposRequest(b) ==
  \E outcome \in RepoOutcomes :
    LET r == GithubReposHandler(sessions[b], outcome)
    IN /\ last' = [op |-> "getRepos", browser |-> b, tok |-> sessions[b],
                    status |-> r.status, upstream |-> r.upstream,
                    n |-> Len(r.body)]
       /\ UNCHANGED <<chatVars, mapVars, linkVars, mounted, sessions>>

\* maxAge: the session cookie of browser b lapses 24 hours after it was set
SessionExpires(b) ==
  /\ sessions[b] # NoToken
  /\ sessions' = [sessions EXCEPT ![b] = NoToken]
  /\ last' = [op |-> "expire", browser |-> b]
  /\ UNCHANGED <<chatVars, mapVars, linkVars, mounted>>

\* the OAuth popup of the application's browser reaches the callback
Callback == CallbackRequest(AppBrowser)

\* the application's session lapses
SessionExpire == SessionExpires(AppBrowser)

AnyCallback == \E b \in Browsers : CallbackRequest(b)
AnyUserRequest == \E b \in Browsers : UserRequest(b)
AnyReposRequest == \E b \in Browsers : ReposRequest(b)
AnySessionExpire == \E b \in Browsers : SessionExpires(b)

----------------------------------------------------------------------------
(* Linked-account state of the client: fetchGithubUser, fetchGithubRepos *)

\* Response.ok
Ok(status) == status >= 200 /\ status <= 299

\* A request in flight is its kind and the session token its Cookie header
\* carried when it left: "userReq" is a fetchGithubUser suspended at its
\* fetch, "reposReq" a fetchGithubRepos suspended at its fetch.  chains
\* counts the requests in flight of each kind.
Requests == {"userReq", "reposReq"} \X ({NoToken} \cup Tokens)

NoRequests == [q \in Requests |-> 0]

Sent(c, q) == [c EXCEPT ![q] = @ + 1]
Answered(c, q) == [c EXCEPT ![q] = @ - 1]

InFlight(kind) ==
  LET RECURSIVE Sum(_)
      Sum(S) == IF S = {} THEN 0
                ELSE LET q == CHOOSE x \in S : TRUE
                     IN chains[q] + Sum(S \ {q})
  IN Sum({q \in Requests : q[1] = kind})

\* fetchGithubUser after its await, on the response the server's handler
\* gives to the request: on an ok response it stores the profile and calls
\* fetchGithubRepos, whose request leaves with the session cookie
UserResponse ==
  \E tok \in {NoToken} \cup Tokens, upstreamOk \in BOOLEAN :
    /\ chains[<<"userReq", tok>>] > 0
    /\ LET r == GithubUserHandler(tok, upstreamOk)
       IN /\ IF Ok(r.status)
             THEN /\ githubUser' = r.body
                  /\ chains' = Sent(Answered(chains, <<"userReq", tok>>),
                                    <<"reposReq", cookie>>)
             ELSE /\ chains' = Answered(chains, <<"userReq", tok>>)
                  /\ UNCHANGED githubUser
          /\ last' = [op |-> "userResponse", tok |-> tok,
                       status |-> r.status, upstream |-> r.upstream]
    /\ UNCHANGED <<chatVars, mapVars, githubRepos, fetches, mounted, sessions>>

\* fetchGithubRepos after its await, on the response the server's handler
\* gives to the request
ReposResponse ==
  \E tok \in {NoToken} \cup Tokens, outcome \in RepoOutcomes :
    /\ chains[<<"reposReq", tok>>] > 0
    /\ LET r == GithubReposHandler(tok, outcome)
       IN /\ IF Ok(r.status)
             THEN githubRepos' = r.body
             ELSE UNCHANGED githubRepos
          /\ last' = [op |-> "reposResponse", tok |-> tok,
                       status |-> r.status, upstream |-> r.upstream]
    /\ chains' = Answered(chains, <<"reposReq", tok>>)
    /\ UNCHANGED <<chatVars, mapVars, githubUser, fetches, mounted, sessions>>

\* a fetch that rejects (the network fails): the catch logs and the
\* invocation ends
FetchRejects ==
  \E q \in Requests :
    /\ chains[q] > 0
    /\ chains' = Answered(chains, q)
    /\ last' = [op |-> "fetchRejects"]
    /\ UNCHANGED <<chatVars, mapVars, githubUser, githubRepos, fetches, mounted,
                   sessions>>

\* a suspended handleSend resumes (placed here because a request it issued
\* would leave with the session cookie)
ChatResolve ==
  \E i \in 1..Len(pending), outcome \in GenOutcomes :
    LET p == pending[i]
        e == HandleSendResume(p, outcome)
        q == ResumeRequests(p, outcome)
    IN /\ messages' = messages \o e.appended
       /\ isLoading' = e.isLoading
       /\ pending' = RemoveAt(pending, i)
       /\ apiCalls' = apiCalls + q.generate
       /\ chains' = IF q.proxy > 0 THEN Sent(chains, <<"reposReq", cookie>>)
                    ELSE chains
       /\ last' = [op |-> "chatResolve", lenBefore |-> p.lenBefore,
                    message |-> p.message, throws |-> outcome.throws,
                    toolCall |-> e.toolCall]
       /\ UNCHANGED <<input, mapVars, githubUser, githubRepos, fetches, mounted,
                      sessions>>

\* mutant: the mount effect starts the profile and the repositories fetch
\* side by side
MountParallel ==
  /\ ~mounted
  /\ mounted' = TRUE
  /\ geoAsked' = TRUE
  /\ chains' = Sent(Sent(chains, <<"userReq", cookie>>), <<"reposReq", cookie>>)
  /\ last' = [op |-> "mount"]
  /\ UNCHANGED <<chatVars, location, mapCenter, zoom, githubUser, githubRepos,
                 fetches, sessions>>

\* the mount effects: fetchGithubUser(), the message listener, and the
\* one-shot geolocation request (a browser without navigator.geolocation
\* behaves as one whose request is never answered)
Mount ==
  /\ ~mounted
  /\ mounted' = TRUE
  /\ geoAsked' = TRUE
  /\ chains' = Sent(chains, <<"userReq", cookie>>)
  /\ last' = [op |-> "mount"]
  /\ UNCHANGED <<chatVars, location, mapCenter, zoom, githubUser, githubRepos,
                 fetches, sessions>>

----------------------------------------------------------------------------
(* Cross-window messages: handleMessage *)

\* the deployed application (APP_URL) and the local development server
AppOrigin == <<"https://", "geoguide-1234", ".run.app">>
LocalOrigin == <<"http://", "localhost", ":3000">>

\* origins a window that posts to the application can have
Origins ==
  { AppOrigin, LocalOrigin,
    <<"https://", "evil", ".example">>,
    <<"https://", "evil", ".run.app">>,
    <<"https://", "localhost", ".evil", ".example">> }

AuthSuccess == [type |-> "OAUTH_AUTH_SUCCESS", provider |-> "github"]

\* event.data of a message: the callback page's, and others
MessageData ==
  { AuthSuccess,
    [type |-> "OAUTH_AUTH_SUCCESS", provider |-> "gitlab"],
    Null }

\* the origin test of handleMessage: the message goes on when this holds
OriginPasses(origin) ==
  EndsWith(origin, <<".run.app">>) \/ Includes(origin, <<"localhost">>)

\* event.data?.type === 'OAUTH_AUTH_SUCCESS' && event.data?.provider === 'github'
IsAuthSuccess(data) ==
  /\ data # Null
  /\ data.type = "OAUTH_AUTH_SUCCESS"
  /\ data.provider = "github"

\* a message event, from any window, reaches the listener registered at
\* mount; last records its origin and whether fetchGithubUser was called
WindowMessage ==
  \E origin \in Origins, data \in MessageData :
    /\ mounted
    /\ IF OriginPasses(origin) /\ IsAuthSuccess(data)
       THEN /\ apiCalls + fetches < MaxOps
            /\ fetches' = fetches + 1
            /\ chains' = Sent(chains, <<"userReq", cookie>>)
            /\ last' = [op |-> "message", origin |-> origin, fetched |-> TRUE]
       ELSE /\ UNCHANGED <<chains, fetches>>
            /\ last' = [op |-> "message", origin |-> origin, fetched |-> FALSE]
    /\ UNCHANGED <<chatVars, mapVars, githubUser, githubRepos, mounted, sessions>>

----------------------------------------------------------------------------
(* Map view *)

DefaultCenter == <<51505, -90>>  \* [51.505, -0.09] in thousandths of a degree

\* coordinates a click or the device can report, in thousandths of a degree
Coords == { <<48857, 2352>>, <<-33868, 151209>> }

\* getCurrentPosition's success callback
GeoSuccess ==
  \E c \in Coords :
    /\ geoAsked
    /\ geoAsked' = FALSE
    /\ location' = [latitude |-> c[1], longitude |-> c[2]]
    /\ mapCenter' = c
    /\ last' = [op |-> "geoSuccess"]
    /\ UNCHANGED <<chatVars, linkVars, zoom, mounted, sessions>>

\* getCurrentPosition's error callback
GeoError ==
  /\ geoAsked
  /\ geoAsked' = FALSE
  /\ last' = [op |-> "geoError"]
  /\ UNCHANGED <<chatVars, linkVars, location, mapCenter, zoom, mounted, sessions>>

\* onLocationSelect, called by MapEvents on a click
MapClick ==
  \E c \in Coords :
    /\ mounted
    /\ mapCenter' = c
    /\ zoom' = ClickZoom
    /\ last' = [op |-> "mapClick", before |-> zoom]
    /\ UNCHANGED <<chatVars, linkVars, location, geoAsked, mounted, sessions>>

\* the "Recenter to my location" button
Recenter ==
  /\ mounted
  /\ IF location # Null
     THEN mapCenter' = <<location.latitude, location.longitude>>
     ELSE UNCHANGED mapCenter
  /\ last' = [op |-> "recenter", before |-> zoom]
  /\ UNCHANGED <<chatVars, linkVars, location, zoom, geoAsked, mounted, sessions>>

\* mutant: the zoom-in button does not clamp
ZoomInUnclamped(z) == z + 1

\* setZoom(z => Math.min(z + 1, 18))
ZoomInTo(z) == Min(z + 1, MaxZoom)

\* setZoom(z => Math.max(z - 1, 3))
ZoomOutTo(z) == Max(z - 1, MinZoom)

ZoomIn ==
  /\ mounted
  /\ zoom' = ZoomInTo(zoom)
  /\ last' = [op |-> "zoomIn", before |-> zoom]
  /\ UNCHANGED <<chatVars, linkVars, location, mapCenter, geoAsked, mounted, sessions>>

ZoomOut ==
  /\ mounted
  /\ zoom' = ZoomOutTo(zoom)
  /\ last' = [op |-> "zoomOut", before |-> zoom]
  /\ UNCHANGED <<chatVars, linkVars, location, mapCenter, geoAsked, mounted, sessions>>

----------------------------------------------------------------------------
(* Specifications *)

\* the state after the first render, with no session cookie yet (a browser
\* that arrives with a token is one whose callback ran before the mount)
Init ==
  /\ messages = <<WelcomeMessage>>
  /\ input = <<>>
  /\ isLoading = FALSE
  /\ location = Null
  /\ mapCenter = DefaultCenter
  /\ zoom = InitialZoom
  /\ githubUser = Null
  /\ githubRepos = <<>>
  /\ mounted = FALSE
  /\ geoAsked = FALSE
  /\ pending = <<>>
  /\ apiCalls = 0
  /\ chains = NoRequests
  /\ fetches = 0
  /\ sessions = [b \in Browsers |-> NoToken]
  /\ last = [op |-> "init"]

Next ==
  \/ Mount
  \/ SetInput
  \/ HandleSend
  \/ ChatResolve
  \/ WindowMessage
  \/ UserResponse
  \/ ReposResponse
  \/ FetchRejects
  \/ Callback
  \/ SessionExpire

Spec == Init /\ [][Next]_vars

NextMap ==
  \/ Mount
  \/ GeoSuccess
  \/ GeoError
  \/ MapClick
  \/ Recenter
  \/ ZoomIn
  \/ ZoomOut

SpecMap == Init /\ [][NextMap]_vars

\* server.ts alone, under requests from any browser
NextServer ==
  \/ AnyCallback
  \/ AnyUserRequest
  \/ AnyReposRequest
  \/ AnySessionExpire

SpecServer == Init /\ [][NextServer]_vars

----------------------------------------------------------------------------
(* Claims *)

\* the lines of a text: its pieces between "\n" tokens
RECURSIVE Lines(_)
Lines(text) ==
  IF \A i \in 1..Len(text) : text[i] # "\n" THEN <<text>>
  ELSE LET k == CHOOSE i \in 1..Len(text) :
                  text[i] = "\n" /\ \A j \in 1..(i - 1) : text[j] # "\n"
       IN <<SubSeq(text, 1, k - 1)>> \o Lines(SubSeq(text, k + 1, Len(text)))

IsBullet(line) == Len(line) > 0 /\ line[1] = "- ["

BulletLines(text) == SelectSeq(Lines(text), IsBullet)

\* a markdown bullet whose link text is the repository's name and whose link
\* target is its URI
IsRepoBullet(line, r) ==
  /\ Len(line) >= 5
  /\ line[1] = "- [" /\ line[2] = r.name
  /\ line[3] = "](" /\ line[4] = r.html_url /\ line[5] = "): "

\* a markdown list with one bullet line per repository, in order
RendersRepos(text, repos) ==
  /\ Len(BulletLines(text)) = Len(repos)
  /\ \A i \in 1..Len(repos) : IsRepoBullet(BulletLines(text)[i], repos[i])

LastMessage == messages[Len(messages)]

\* C1: once the chatWithMaps call of an accepted submission has resolved, the
\* transcript is exactly 2 messages longer than before the submission: the
\* user message with the submitted text, then exactly one assistant message
\* (the model reply, the tool-call output, or the fixed error text).
C1_TranscriptGrowsByTwo ==
  last.op = "chatResolve" =>
    /\ Len(messages) = last.lenBefore + 2
    /\ messages[last.lenBefore + 1] = [role |-> "user", text |-> last.message]
    /\ LastMessage.role = "model"
    /\ last.throws => LastMessage.text = ErrorText
    /\ last.toolCall =>
         \/ LastMessage.text = LinkPromptText
         \/ SubSeq(LastMessage.text, 1, Len(RepoListHeader)) = RepoListHeader

\* C1 witness: a second submission resolved by the error path
C1_Witness ==
  /\ last.op = "chatResolve" /\ last.throws
  /\ last.lenBefore = 3 /\ Len(messages) = 5
  /\ Trim(last.message) # <<>>

\* C2: a handleSend whose input is empty or whitespace-only appends no
\* message, does not set the loading flag and issues no call to the
\* generative API.
C2_BlankInputNotSent ==
  [][(HandleSend /\ Trim(input) = <<>>)
       => UNCHANGED <<messages, isLoading, pending, apiCalls>>]_vars

\* C2 witness: handleSend has just returned early on a whitespace-only input
\* while nothing was loading
C2_Witness ==
  /\ last.op = "handleSend" /\ last.blank /\ ~last.busy /\ ~last.accepted
  /\ input # <<>> /\ Trim(input) = <<>>
  /\ ~isLoading /\ apiCalls = 0 /\ Len(messages) = 1

\* C3 (as claimed): when the response carries a list_github_repositories
\* call, the assistant message is the prompt-to-link text if no account is
\* linked, and a markdown list with one bullet per cached repository, in
\* cached order, if an account is linked and repositories are cached.
C3_ToolCallFollowsLinkedState ==
  (last.op = "chatResolve" /\ last.toolCall) =>
    IF githubUser = Null
    THEN LastMessage.text = LinkPromptText
    ELSE Len(githubRepos) > 0 => RendersRepos(LastMessage.text, githubRepos)

\* C4: a request to /api/github/user or /api/github/repos with a session
\* that holds no token is answered 401 and no request to the provider is
\* issued, after any sequence of prior requests.
C4_NoTokenIs401 ==
  (last.op \in {"getUser", "getRepos"} /\ last.tok = NoToken) =>
    (last.status = 401 /\ ~last.upstream)

\* C4 witness: a repositories request answered 401 for a session without a
\* token while another browser's session holds one
C4_Witness ==
  /\ last.op = "getRepos" /\ last.tok = NoToken /\ last.status = 401
  /\ sessions[last.browser] = NoToken
  /\ \E b \in Browsers : sessions[b] # NoToken

\* C5: a callback request without a code is answered 400, makes no
\* token-exchange call and leaves the session's token unchanged.
C5_MissingCodeIs400 ==
  (last.op = "callback" /\ last.code = "") =>
    /\ last.status = 400
    /\ ~last.exchanged
    /\ sessions[last.browser] = last.tokBefore

\* C5 witness: a callback without a code on a session that holds a token
C5_Witness ==
  /\ last.op = "callback" /\ last.code = "" /\ last.status = 400
  /\ last.tokBefore # NoToken

\* the origins the claim trusts: the deployed application and the local
\* development server
TrustedOrigins == {AppOrigin, LocalOrigin}

\* C6 (as claimed): a cross-window message triggers a profile fetch only if
\* its origin is the deployed application's host or a local-development
\* host; a message from any other origin triggers no fetch.
C6_OnlyTrustedOriginsFetch ==
  (last.op = "message" /\ last.fetched) => last.origin \in TrustedOrigins

\* C7: the zoom level is an integer in [3,18] in every reachable state;
\* zoom-in at 18 and zoom-out at 3 leave it unchanged, and a map click sets
\* it to 15.
C7_ZoomInRange ==
  /\ zoom \in 3..18
  /\ (last.op = "zoomIn" /\ last.before = 18) => zoom = 18
  /\ (last.op = "zoomOut" /\ last.before = 3) => zoom = 3
  /\ last.op = "mapClick" => zoom = 15

\* C7 witness: zoom-in was pressed at 18
C7_Witness == last.op = "zoomIn" /\ last.before = 18 /\ zoom = 18

\* C8: the loading flag is set exactly while a chat request is outstanding:
\* it is cleared when the call resolves, on every path, so that a non-empty
\* submission is accepted again.
C8_LoadingClearedOnResolve ==
  /\ isLoading <=> pending # <<>>
  /\ last.op = "chatResolve" => (~isLoading /\ ~SendRefused(last.message, isLoading))

\* C8 witness: after a tool-call response, a later submission was accepted
C8_Witness ==
  /\ last.op = "handleSend" /\ last.accepted
  /\ Len(messages) = 4
  /\ messages[3].text = LinkPromptText
  /\ isLoading

\* C9: at most one chat request is outstanding; a handleSend invoked while
\* one is outstanding appends no message and issues no call, and no call is
\* issued for it later, when the outstanding one resolves.
C9_SingleRequestInFlight ==
  /\ [](Len(pending) <= 1)
  /\ [][(HandleSend /\ pending # <<>>)
          => UNCHANGED <<messages, isLoading, pending, apiCalls, input>>]_vars
  /\ [][Len(pending') < Len(pending) => apiCalls' = apiCalls]_vars

\* C9 witness: a non-empty submission was refused while a request was
\* outstanding
C9_Witness ==
  /\ last.op = "handleSend" /\ last.busy /\ ~last.blank /\ ~last.accepted
  /\ Len(pending) = 1 /\ apiCalls = 1 /\ Len(messages) = 2

\* C10 (as claimed): when the callback receives a code and the exchange
\* fails (the call errors, or the provider answers without an access
\* token), the response has an error status and the session's token is what
\* it was before the request.
C10_FailedExchangeKeepsSession ==
  (last.op = "callback" /\ last.code # "" /\ ~last.granted) =>
    /\ last.status >= 400
    /\ sessions[last.browser] = last.tokBefore

\* C11 (as claimed): a repository list is fetched from the provider, and
\* rendered into the transcript by the tool-call branch, only while the
\* session holds a token, also after the session has expired or a later
\* exchange has failed.
C11_ReposOnlyWithToken ==
  /\ (last.op = "reposResponse" /\ last.upstream) => last.tok # NoToken
  /\ (last.op = "chatResolve" /\ last.toolCall
        /\ BulletLines(LastMessage.text) # <<>>) => cookie # NoToken

IsUserTurn(m) == m.role = "user"

\* the accepted submissions so far: each appended one user message
UserTurns == Len(SelectSeq(messages, IsUserTurn))

\* C12: each accepted submission issues exactly one call to the generative
\* API: the call count equals the number of accepted submissions, an accepted
\* handleSend raises it by one, and the resumed handleSend (in particular its
\* tool-call branch, which produces the turn locally) issues no second call
\* and no request to the account proxy.
C12_OneCallPerSubmission ==
  /\ [](apiCalls = UserTurns)
  /\ [][(HandleSend /\ ~SendRefused(input, isLoading))
          => (apiCalls' = apiCalls + 1 /\ chains' = chains)]_vars
  /\ [][ChatResolve => (apiCalls' = apiCalls /\ chains' = chains)]_vars

\* C12 witness: one submission, answered by a tool call, was turned into the
\* list of the cached repositories with one call made and no request in
\* flight
C12_Witness ==
  /\ last.op = "chatResolve" /\ last.toolCall
  /\ apiCalls = 1 /\ UserTurns = 1 /\ Len(messages) = 3
  /\ githubUser # Null /\ Len(githubRepos) > 0
  /\ RendersRepos(LastMessage.text, githubRepos)
  /\ chains = NoRequests

\* C13 (as claimed): a repositories request is issued only after a profile
\* request has returned successfully, and at no time, across the startup
\* trigger and the accepted OAuth-success messages, is a profile request
\* outstanding at the same moment as a repositories request.
C13_ProfileAndReposNeverTogether ==
  /\ [](~(InFlight("userReq") > 0 /\ InFlight("reposReq") > 0))
  /\ [][InFlight("reposReq")' > InFlight("reposReq")
          => (UserResponse /\ Ok(last'.status))]_vars

\* C13 (amended): within each fetchGithubUser invocation the two requests
\* are sequential: a repositories request is issued only by the step in
\* which a profile request returns successfully, one for that one profile
\* request, which is then no longer outstanding.  (Invocations started by
\* different triggers are independent of each other.)
C13_ReposAfterProfile ==
  [][InFlight("reposReq")' > InFlight("reposReq")
       => /\ UserResponse
          /\ Ok(last'.status)
          /\ githubUser' = Profile
          /\ InFlight("reposReq")' = InFlight("reposReq") + 1
          /\ InFlight("userReq")' = InFlight("userReq") - 1]_vars

\* C13 witness: the profile request of one trigger has just returned
\* successfully and its repositories request is outstanding, together with
\* the profile request of another trigger
C13_Witness ==
  /\ last.op = "userResponse" /\ Ok(last.status)
  /\ githubUser = Profile
  /\ InFlight("reposReq") = 1 /\ InFlight("userReq") = 1
  /\ fetches = 1

====
